---- MODULE Spec2Model ----
(***************************************************************************)
(* Model of src/app.py, the "Daily Health Log Dashboard".                  *)
(*                                                                         *)
(* Three specifications are defined over one set of variables:             *)
(*   Spec       the render cycle of the read-write local variant: every    *)
(*              user interaction re-runs the script top to bottom          *)
(*              (load_data, Save entry, empty guard, metrics, filters,     *)
(*              Delete an entry) against the file DATA_FILE;               *)
(*   SpecSheet  load_data_from_sheet under @st.cache_data(ttl=300);        *)
(*   SpecCoerce safe_int and safe_float applied to arbitrary inputs.       *)
(*                                                                         *)
(* Modelling notes.                                                        *)
(*  - In src/app.py the lines 18-43 (DATA_FILE, COLUMNS, load_data) sit    *)
(*    between two triple-quote lines.  The model follows the text of those *)
(*    lines: load_data and DATA_FILE are modelled as written there.        *)
(*  - Text is a sequence of one-character strings; a CSV file is a         *)
(*    sequence of rows of text cells.  pandas' read_csv, to_datetime,      *)
(*    sort_values, to_csv and Python's int() and float() are modelled on   *)
(*    the texts built from Alphabet and the cells listed below.            *)
(*  - A float is kept exactly as m / 10^k (FloatV); binary rounding is     *)
(*    not modelled.                                                        *)
(*  - The record has the columns date, weight_lbs, surya_namaskar and      *)
(*    notes.  water_glasses_8oz and fasting_window_hours are handled by    *)
(*    the code exactly as surya_namaskar, and breakfast, lunch, dinner and *)
(*    snacks exactly as notes.                                             *)
(***************************************************************************)
EXTENDS Integers, Sequences, FiniteSets, TLC

VARIABLES
    file,       \* DATA_FILE: [exists, rows], rows a sequence of CSV rows
    df,         \* the script's DataFrame df, a sequence of typed rows
    pc,         \* position of the script run
    row,        \* the row built by the Save entry handler in this run
    wrote,      \* TRUE when save_data ran in this run
    del,        \* outcome of the Delete block in this run
    metric,     \* what the weight metric shows
    filt,       \* min_d / max_d of the Filters block
    remote,     \* the published sheet behind SHEET_CSV_URL (CSV rows)
    now,        \* seconds on the clock of st.cache_data
    cache,      \* the st.cache_data entry of load_data_from_sheet
    result,     \* what the last call of load_data_from_sheet gave
    fetched,    \* "hit" or "miss" for the last call
    x,          \* argument of safe_int / safe_float
    ri,         \* safe_int(x)
    rf,         \* safe_float(x)
    cpc         \* position of the coercion driver

vars == <<file, df, pc, row, wrote, del, metric, filt,
          remote, now, cache, result, fetched, x, ri, rf, cpc>>

localVars  == <<file, df, pc, row, wrote, del, metric, filt>>
sheetVars  == <<remote, now, cache, result, fetched>>
coerceVars == <<x, ri, rf, cpc>>

----------------------------------------------------------------------------
(* Bounds                                                                  *)

MaxDay      == 3    \* dates are 2023-12-31 and 2024-01-01 .. 2024-01-MaxDay
MaxRows     == 3    \* Save entry is offered while df has at most MaxRows rows
MaxFileRows == 2    \* rows of the file found at start-up
MaxLen      == 4    \* length of the texts given to safe_int / safe_float
MaxTicks    == 4    \* clock ticks of TickSec seconds in SpecSheet
TickSec     == 100  \* seconds per clock tick
MaxSheetRows == 2   \* rows of the published sheet

----------------------------------------------------------------------------
(* Values of cells                                                         *)

NaN  == [t |-> "nan"]
NaT  == [t |-> "nat"]
None == [t |-> "none"]
IntV(n)   == [t |-> "int", n |-> n]
StrV(s)   == [t |-> "str", s |-> s]
DateV(d)  == [t |-> "date", d |-> d]

RECURSIVE Normalize(_, _)
Normalize(m, k) ==
    IF k > 0 /\ m % 10 = 0 THEN Normalize(m \div 10, k - 1) ELSE <<m, k>>

\* the float m / 10^k
FloatV(m, k) ==
    LET n == Normalize(m, k) IN [t |-> "float", m |-> n[1], k |-> n[2]]

RECURSIVE Pow10(_)
Pow10(k) == IF k = 0 THEN 1 ELSE 10 * Pow10(k - 1)

\* pd.notna
notna(v) == v.t \notin {"nan", "nat", "none"}

\* a - b on floats
FloatSub(a, b) ==
    LET k == IF a.k > b.k THEN a.k ELSE b.k
    IN  FloatV(a.m * Pow10(k - a.k) - b.m * Pow10(k - b.k), k)

----------------------------------------------------------------------------
(* Text                                                                    *)

DigitChars == <<"0", "1", "2", "3", "4", "5", "6", "7", "8", "9">>

IsDigit(c) == \E i \in 1..10 : DigitChars[i] = c
DigitVal(c) == (CHOOSE i \in 1..10 : DigitChars[i] = c) - 1

RECURSIVE Digits(_)
Digits(n) ==
    IF n < 10 THEN <<DigitChars[n + 1]>>
    ELSE Digits(n \div 10) \o <<DigitChars[(n % 10) + 1]>>

RECURSIVE ZeroPad(_, _)
ZeroPad(s, w) == IF Len(s) >= w THEN s ELSE ZeroPad(<<"0">> \o s, w)

AllDigits(s) == Len(s) > 0 /\ \A i \in 1..Len(s) : IsDigit(s[i])

RECURSIVE DigitsVal(_)
DigitsVal(s) ==
    IF Len(s) = 0 THEN 0
    ELSE 10 * DigitsVal(SubSeq(s, 1, Len(s) - 1)) + DigitVal(s[Len(s)])

IsSpace(c) == c = " "

RECURSIVE LStrip(_)
LStrip(s) == IF Len(s) > 0 /\ IsSpace(s[1]) THEN LStrip(Tail(s)) ELSE s

RECURSIVE RStrip(_)
RStrip(s) ==
    IF Len(s) > 0 /\ IsSpace(s[Len(s)]) THEN RStrip(SubSeq(s, 1, Len(s) - 1))
    ELSE s

\* str.strip()
Strip(s) == RStrip(LStrip(s))

Lower(c) == IF c = "N" THEN "n" ELSE IF c = "A" THEN "a" ELSE c
LowerText(s) == [i \in 1..Len(s) |-> Lower(s[i])]

IndexOfDot(s) ==
    IF \E i \in 1..Len(s) : s[i] = "."
    THEN CHOOSE i \in 1..Len(s) : s[i] = "." /\ \A j \in 1..(i - 1) : s[j] # "."
    ELSE 0

\* digits, or digits with one "." and a digit on at least one side
IsDecimalText(s) ==
    LET p == IndexOfDot(s)
        a == SubSeq(s, 1, p - 1)
        b == SubSeq(s, p + 1, Len(s))
    IN  IF p = 0 THEN AllDigits(s)
        ELSE /\ Len(a) + Len(b) > 0
             /\ a = <<>> \/ AllDigits(a)
             /\ b = <<>> \/ AllDigits(b)

DecimalVal(s) ==
    LET p == IndexOfDot(s)
        a == SubSeq(s, 1, p - 1)
        b == SubSeq(s, p + 1, Len(s))
    IN  IF p = 0 THEN FloatV(DigitsVal(s), 0)
        ELSE FloatV(DigitsVal(a) * Pow10(Len(b)) + DigitsVal(b), Len(b))

----------------------------------------------------------------------------
(* Python's float() and int(), and the two safe_ wrappers                  *)

Raised == [ok |-> FALSE]
Ok(v)  == [ok |-> TRUE, v |-> v]

NanText == <<"n", "a", "n">>

\* float(x): None raises TypeError, malformed text raises ValueError
PyFloat(v) ==
    CASE v.t = "none"  -> Raised
      [] v.t = "int"   -> Ok(FloatV(v.n, 0))
      [] v.t = "float" -> Ok(v)
      [] v.t = "nan"   -> Ok(NaN)
      [] v.t = "str"   ->
            LET s == Strip(v.s)
            IN  IF LowerText(s) = NanText THEN Ok(NaN)
                ELSE IF IsDecimalText(s) THEN Ok(DecimalVal(s))
                ELSE Raised
      [] OTHER -> Raised

\* int(x): None raises TypeError, NaN and non-integer text raise ValueError,
\* a float is truncated
PyInt(v) ==
    CASE v.t = "none"  -> Raised
      [] v.t = "int"   -> Ok(v)
      [] v.t = "float" -> Ok(IntV(v.m \div Pow10(v.k)))
      [] v.t = "nan"   -> Raised
      [] v.t = "str"   ->
            LET s == Strip(v.s)
            IN  IF AllDigits(s) THEN Ok(IntV(DigitsVal(s))) ELSE Raised
      [] OTHER -> Raised

safe_float(v) ==
    LET r == PyFloat(v) IN IF r.ok THEN r.v ELSE NaN

safe_int(v) ==
    LET r == PyInt(v) IN IF r.ok THEN r.v ELSE NaN

----------------------------------------------------------------------------
(* Dates                                                                   *)

Dates == {<<2023, 12, 31>>} \cup {<<2024, 1, d>> : d \in 1..MaxDay}

DateLess(a, b) ==
    \/ a[1] < b[1]
    \/ a[1] = b[1] /\ a[2] < b[2]
    \/ a[1] = b[1] /\ a[2] = b[2] /\ a[3] < b[3]

IsLeap(y) == (y % 4 = 0 /\ y % 100 # 0) \/ y % 400 = 0

DaysIn(y, m) ==
    IF m = 2 THEN (IF IsLeap(y) THEN 29 ELSE 28)
    ELSE IF m \in {4, 6, 9, 11} THEN 30 ELSE 31

Dash == <<"-">>

\* strftime("%Y-%m-%d")
strftime(d) ==
    ZeroPad(Digits(d[1]), 4) \o Dash \o ZeroPad(Digits(d[2]), 2)
        \o Dash \o ZeroPad(Digits(d[3]), 2)

IsIsoDateText(s) ==
    /\ Len(s) = 10
    /\ s[5] = "-" /\ s[8] = "-"
    /\ AllDigits(SubSeq(s, 1, 4))
    /\ AllDigits(SubSeq(s, 6, 7))
    /\ AllDigits(SubSeq(s, 9, 10))
    /\ LET y == DigitsVal(SubSeq(s, 1, 4))
           m == DigitsVal(SubSeq(s, 6, 7))
           d == DigitsVal(SubSeq(s, 9, 10))
       IN  y >= 1 /\ m \in 1..12 /\ d \in 1..DaysIn(y, m)

IsoDateVal(s) ==
    <<DigitsVal(SubSeq(s, 1, 4)), DigitsVal(SubSeq(s, 6, 7)),
      DigitsVal(SubSeq(s, 9, 10))>>

\* pd.to_datetime(...).dt.date on one cell: a missing cell gives NaT, a
\* date text the date, a date the date, any other text raises
ToDate(v) ==
    CASE v.t \in {"nan", "nat", "none"} -> Ok(NaT)
      [] v.t = "date" -> Ok(v)
      [] v.t = "str"  ->
            IF IsIsoDateText(v.s) THEN Ok(DateV(IsoDateVal(v.s))) ELSE Raised
      [] OTHER -> Raised

----------------------------------------------------------------------------
(* DataFrames: sequences of rows [date, weight_lbs, surya_namaskar, notes] *)

EmptyFrame == <<>>

\* key order of sort_values("date"): ascending, missing dates last
DateKeyLeq(a, b) ==
    IF ~notna(b) THEN TRUE
    ELSE IF ~notna(a) THEN FALSE
    ELSE ~DateLess(b.d, a.d)

RECURSIVE InsertByDate(_, _)
InsertByDate(sorted, r) ==
    IF Len(sorted) = 0 THEN <<r>>
    ELSE IF DateKeyLeq(sorted[Len(sorted)].date, r.date) THEN Append(sorted, r)
    ELSE Append(InsertByDate(SubSeq(sorted, 1, Len(sorted) - 1), r),
                sorted[Len(sorted)])

RECURSIVE SortFrom(_, _)
SortFrom(done, rest) ==
    IF Len(rest) = 0 THEN done
    ELSE SortFrom(InsertByDate(done, Head(rest)), Tail(rest))

\* mutant: the frame is returned in the order it has
sort_values_unsorted(frame) == frame

\* df.sort_values("date")
sort_values(frame) == SortFrom(<<>>, frame)

HasDate(frame, d) == \E i \in 1..Len(frame) : frame[i].date = d

\* df[df["date"] != d]
WithoutDate(frame, d) == SelectSeq(frame, LAMBDA r : r.date # d)

\* mutant: the row is appended without removing the row of the same date
upsert_row_noreplace(frame, r) == sort_values(Append(frame, r))

\* mutant: a missing weight of the new row is filled from the row it replaces
upsert_row_merge(frame, r) ==
    LET d    == r.date
        old  == SelectSeq(frame, LAMBDA q : q.date = d)
        kept == IF Len(frame) > 0 /\ HasDate(frame, d)
                THEN WithoutDate(frame, d) ELSE frame
        new  == IF Len(old) > 0 /\ ~notna(r.weight_lbs)
                THEN [r EXCEPT !.weight_lbs = old[1].weight_lbs] ELSE r
    IN  sort_values(Append(kept, new))

upsert_row(frame, r) ==
    LET d    == r.date
        kept == IF Len(frame) > 0 /\ HasDate(frame, d)
                THEN WithoutDate(frame, d) ELSE frame
    IN  sort_values(Append(kept, r))

----------------------------------------------------------------------------
(* CSV: pd.read_csv and DataFrame.to_csv                                   *)

\* cells that read_csv turns into NaN (its default na_values, as far as the
\* modelled characters can spell them)
NaTexts == {<<>>, <<"n", "a", "n">>, <<"N", "a", "N">>, <<"N", "A">>}

IsNA(cell) == cell \in NaTexts

\* dtype inference of read_csv on one column: int64 when every cell is an
\* integer, float64 when every present cell is a number, object otherwise
InferColumn(cells) ==
    LET present == {i \in 1..Len(cells) : ~IsNA(cells[i])}
        allInt  == \A i \in present : AllDigits(cells[i])
        allNum  == \A i \in present : IsDecimalText(cells[i])
    IN  [i \in 1..Len(cells) |->
            IF i \notin present THEN NaN
            ELSE IF allInt /\ present = 1..Len(cells)
                 THEN IntV(DigitsVal(cells[i]))
            ELSE IF allNum THEN DecimalVal(cells[i])
            ELSE StrV(cells[i])]

Column(rows, name) == [i \in 1..Len(rows) |-> rows[i][name]]

\* pd.read_csv: the frame with every column typed by inference
read_csv(rows) ==
    LET c_date   == InferColumn(Column(rows, "date"))
        c_weight == InferColumn(Column(rows, "weight_lbs"))
        c_surya  == InferColumn(Column(rows, "surya_namaskar"))
        c_notes  == InferColumn(Column(rows, "notes"))
    IN  [i \in 1..Len(rows) |->
            [date           |-> c_date[i],
             weight_lbs     |-> c_weight[i],
             surya_namaskar |-> c_surya[i],
             notes          |-> c_notes[i]]]

\* repr of a float as to_csv writes it
FloatText(v) ==
    IF v.k = 0 THEN Digits(v.m) \o <<".", "0">>
    ELSE Digits(v.m \div Pow10(v.k)) \o <<".">>
            \o ZeroPad(Digits(v.m % Pow10(v.k)), v.k)

\* one cell as to_csv writes it (na_rep is the empty text)
CellText(v) ==
    CASE v.t = "int"   -> Digits(v.n)
      [] v.t = "float" -> FloatText(v)
      [] v.t = "str"   -> v.s
      [] v.t = "date"  -> strftime(v.d)
      [] OTHER         -> <<>>

\* df["date"] = pd.to_datetime(df["date"]).dt.date ; raises when a cell does
DatesParse(frame) == \A i \in 1..Len(frame) : ToDate(frame[i].date).ok

WithDates(frame) ==
    [i \in 1..Len(frame) |-> [frame[i] EXCEPT !.date = ToDate(frame[i].date).v]]

\* the body shared by load_data and load_data_from_sheet:
\* read_csv, to_datetime(...).dt.date, sort_values("date")
LoadFrame(rows) ==
    LET raw == read_csv(rows)
    IN  IF DatesParse(raw) THEN [ok |-> TRUE, df |-> sort_values(WithDates(raw))]
        ELSE [ok |-> FALSE, df |-> EmptyFrame]

NoFile == [exists |-> FALSE, rows |-> <<>>]

load_data(f) ==
    IF f.exists THEN LoadFrame(f.rows)
    ELSE [ok |-> TRUE, df |-> EmptyFrame]

\* save_data: the date column through to_datetime and strftime, then to_csv
save_data(frame) ==
    [exists |-> TRUE,
     rows   |-> [i \in 1..Len(frame) |->
                    [date           |-> CellText(ToDate(frame[i].date).v),
                     weight_lbs     |-> CellText(frame[i].weight_lbs),
                     surya_namaskar |-> CellText(frame[i].surya_namaskar),
                     notes          |-> CellText(frame[i].notes)]]]

----------------------------------------------------------------------------
(* The script run of the read-write local variant                          *)

T_oats  == <<"o", "a", "t", "s">>
T_abc   == <<"a", "b", "c">>
T_150_5 == <<"1", "5", "0", ".", "5">>
T_180_2 == <<"1", "8", "0", ".", "2">>

\* what the user can type or pick in the sidebar form
WeightInputs == {<<>>, T_150_5, T_180_2, T_abc}
SuryaInputs  == {12}
NotesInputs  == {<<>>, <<" ">>, T_oats}

\* rows of a data.csv found at start-up: written with ISO dates, one row per
\* date, in any row order
FileRowSet ==
    [date           : {strftime(d) : d \in Dates},
     weight_lbs     : {<<>>, T_150_5, T_180_2},
     surya_namaskar : {Digits(n) : n \in SuryaInputs},
     notes          : {<<>>, T_oats}]

RECURSIVE RowSeqs(_)
RowSeqs(n) ==
    IF n = 0 THEN {<<>>}
    ELSE LET shorter == RowSeqs(n - 1)
         IN  shorter \cup
             {Append(q, r) : q \in {s \in shorter : Len(s) = n - 1},
                             r \in FileRowSet}

DistinctDates(rows) ==
    \A i, j \in 1..Len(rows) : i # j => rows[i].date # rows[j].date

InitFiles ==
    {NoFile} \cup
    {[exists |-> TRUE, rows |-> q] :
        q \in {s \in RowSeqs(MaxFileRows) : DistinctDates(s)}}

NoRow    == [t |-> "none"]
NoDel    == [pressed |-> FALSE]
NoMetric == [shown |-> "nothing"]
NoFilt   == [shown |-> FALSE]

SheetIdle ==
    /\ remote = <<>> /\ now = 0 /\ cache = [valid |-> FALSE]
    /\ result = [ok |-> TRUE, df |-> EmptyFrame] /\ fetched = "none"

CoerceIdle == x = None /\ ri = NaN /\ rf = NaN /\ cpc = "off"

LocalIdle ==
    /\ file = NoFile /\ df = EmptyFrame /\ pc = "off" /\ row = NoRow
    /\ wrote = FALSE /\ del = NoDel /\ metric = NoMetric /\ filt = NoFilt

Init ==
    /\ file \in InitFiles
    /\ df = EmptyFrame
    /\ pc = "idle"
    /\ row = NoRow
    /\ wrote = FALSE
    /\ del = NoDel
    /\ metric = NoMetric
    /\ filt = NoFilt
    /\ SheetIdle
    /\ CoerceIdle

\* a user interaction starts a run; line 78: df = load_data()
Rerun ==
    /\ pc \in {"idle", "stopped", "done"}
    /\ LET r == load_data(file)
       IN  /\ df' = r.df
           /\ pc' = IF r.ok THEN "form" ELSE "raised"
    /\ row' = NoRow
    /\ wrote' = FALSE
    /\ del' = NoDel
    /\ metric' = NoMetric
    /\ filt' = NoFilt
    /\ UNCHANGED <<file, sheetVars, coerceVars>>

\* lines 105-120: the Save entry button was pressed
SaveEntry ==
    /\ pc = "form"
    /\ \E selected_date \in Dates, weight_lbs \in WeightInputs,
          surya \in SuryaInputs, notes \in NotesInputs :
          LET r == [date           |-> DateV(selected_date),
                    weight_lbs     |-> safe_float(StrV(weight_lbs)),
                    surya_namaskar |-> safe_int(IntV(surya)),
                    notes          |-> StrV(Strip(notes))]
              d == upsert_row(df, r)
          IN  /\ Len(df) < MaxRows \/ HasDate(df, r.date)
              /\ row' = r
              /\ df' = d
              /\ file' = save_data(d)
    /\ wrote' = TRUE
    /\ pc' = "guard"
    /\ UNCHANGED <<del, metric, filt, sheetVars, coerceVars>>

\* the Save entry button was not pressed
NoSave ==
    /\ pc = "form"
    /\ pc' = "guard"
    /\ UNCHANGED <<file, df, row, wrote, del, metric, filt, sheetVars, coerceVars>>

\* mutant: the run goes on to the metrics whatever the frame holds
EmptyGuard_nostop ==
    /\ pc = "guard"
    /\ pc' = "metrics"
    /\ UNCHANGED <<file, df, row, wrote, del, metric, filt, sheetVars, coerceVars>>

\* lines 129-132: st.stop() on an empty frame
EmptyGuard ==
    /\ pc = "guard"
    /\ IF Len(df) = 0
       THEN pc' = "stopped" /\ metric' = [shown |-> "entries0"]
       ELSE pc' = "metrics" /\ metric' = metric
    /\ UNCHANGED <<file, df, row, wrote, del, filt, sheetVars, coerceVars>>

\* df_show: the frame with its date column through pd.to_datetime
df_show(frame) == WithDates(frame)

\* mutant: a missing weight counts as zero
WeightMetric_zero(frame) ==
    LET shown    == sort_values(df_show(frame))
        zero(w)  == IF notna(w) THEN w ELSE FloatV(0, 0)
        w_latest == zero(shown[Len(shown)].weight_lbs)
        w_first  == zero(shown[1].weight_lbs)
    IN  [shown |-> "weight", entries |-> Len(shown),
         value |-> w_latest, delta |-> FloatSub(w_latest, w_first)]

\* lines 134-150: latest, first and the weight metric
WeightMetric(frame) ==
    LET shown    == sort_values(df_show(frame))
        latest   == shown[Len(shown)]
        first    == shown[1]
        w_latest == latest.weight_lbs
        w_first  == first.weight_lbs
    IN  IF notna(w_latest) /\ notna(w_first)
        THEN [shown |-> "weight", entries |-> Len(shown),
              value |-> w_latest, delta |-> FloatSub(w_latest, w_first)]
        ELSE [shown |-> "dash", entries |-> Len(shown),
              value |-> None, delta |-> None]

Metrics ==
    /\ pc = "metrics"
    /\ metric' = WeightMetric(df)
    /\ pc' = "filters"
    /\ UNCHANGED <<file, df, row, wrote, del, filt, sheetVars, coerceVars>>

\* Series.min() / Series.max() of the date column (missing dates skipped)
DateMin(frame) ==
    LET ds == {frame[i].date.d : i \in {j \in 1..Len(frame) : notna(frame[j].date)}}
    IN  CHOOSE d \in ds : \A e \in ds : ~DateLess(e, d)

DateMax(frame) ==
    LET ds == {frame[i].date.d : i \in {j \in 1..Len(frame) : notna(frame[j].date)}}
    IN  CHOOSE d \in ds : \A e \in ds : ~DateLess(d, e)

\* lines 167-169: min_d and max_d of the Filters block (start_d, end_d and
\* df_f feed the charts and the table only)
Filters ==
    /\ pc = "filters"
    /\ filt' = [shown |-> TRUE, min_d |-> DateMin(df_show(df)),
                max_d |-> DateMax(df_show(df))]
    /\ pc' = "delete"
    /\ UNCHANGED <<file, df, row, wrote, del, metric, sheetVars, coerceVars>>

\* mutant: the test of line 247 is inverted
DeleteEntry_inverted ==
    /\ pc = "delete"
    /\ row = NoRow
    /\ \E del_date \in Dates :
          LET before == Len(df)
              df2    == WithoutDate(df, DateV(del_date))
          IN  IF Len(df2) # before
              THEN /\ del' = [pressed |-> TRUE, date |-> del_date,
                              wasDeleted |-> FALSE]
                   /\ UNCHANGED <<df, file, wrote>>
              ELSE /\ df' = df2
                   /\ file' = save_data(df2)
                   /\ wrote' = TRUE
                   /\ del' = [pressed |-> TRUE, date |-> del_date,
                              wasDeleted |-> TRUE]
    /\ pc' = "done"
    /\ UNCHANGED <<row, metric, filt, sheetVars, coerceVars>>

\* lines 242-252: the Delete this date button was pressed
DeleteEntry ==
    /\ pc = "delete"
    /\ row = NoRow
    /\ \E del_date \in Dates :
          LET before == Len(df)
              df2    == WithoutDate(df, DateV(del_date))
          IN  IF Len(df2) = before
              THEN /\ del' = [pressed |-> TRUE, date |-> del_date,
                              wasDeleted |-> FALSE]
                   /\ UNCHANGED <<df, file, wrote>>
              ELSE /\ df' = df2
                   /\ file' = save_data(df2)
                   /\ wrote' = TRUE
                   /\ del' = [pressed |-> TRUE, date |-> del_date,
                              wasDeleted |-> TRUE]
    /\ pc' = "done"
    /\ UNCHANGED <<row, metric, filt, sheetVars, coerceVars>>

\* the Delete this date button was not pressed
NoDelete ==
    /\ pc = "delete"
    /\ pc' = "done"
    /\ UNCHANGED <<file, df, row, wrote, del, metric, filt, sheetVars, coerceVars>>

Next ==
    \/ Rerun
    \/ SaveEntry
    \/ NoSave
    \/ EmptyGuard
    \/ Metrics
    \/ Filters
    \/ DeleteEntry
    \/ NoDelete

Spec == Init /\ [][Next]_vars

TypeOK ==
    /\ pc \in {"off", "idle", "form", "guard", "stopped", "metrics", "filters",
               "delete", "done", "raised"}
    /\ wrote \in BOOLEAN

----------------------------------------------------------------------------
(* The read-only remote variant: load_data_from_sheet under                *)
(* @st.cache_data(ttl=300)                                                 *)

ttl == 300

\* rows the published sheet can hold: a date cell may be a date, empty or
\* not a date, and the weight cell may be malformed
SheetRow(d, w) ==
    [date |-> d, weight_lbs |-> w, surya_namaskar |-> Digits(12), notes |-> <<>>]

SheetRowSet ==
    {SheetRow(strftime(<<2024, 1, 1>>), T_150_5),
     SheetRow(strftime(<<2023, 12, 31>>), T_abc),
     SheetRow(<<>>, T_150_5),
     SheetRow(T_abc, T_150_5)}

RECURSIVE SheetSeqs(_)
SheetSeqs(n) ==
    IF n = 0 THEN {<<>>}
    ELSE LET shorter == SheetSeqs(n - 1)
         IN  shorter \cup
             {Append(q, r) : q \in {s \in shorter : Len(s) = n - 1},
                             r \in SheetRowSet}

Sheets == SheetSeqs(MaxSheetRows)

\* mutant: the entry is still served when exactly ttl seconds old
CacheFresh_inclusive(c, t) == c.valid /\ t - c.at <= ttl

\* the cache entry is served while less than ttl seconds old
CacheFresh(c, t) == c.valid /\ t - c.at < ttl

InitSheet ==
    /\ remote \in Sheets
    /\ now = 0
    /\ cache = [valid |-> FALSE]
    /\ result = [ok |-> TRUE, df |-> EmptyFrame]
    /\ fetched = "none"
    /\ LocalIdle
    /\ CoerceIdle

\* a call of load_data_from_sheet(): the cached frame, or read_csv of the
\* sheet, to_datetime, sort_values; an exception is not cached
CallLoad ==
    /\ IF CacheFresh(cache, now)
       THEN /\ result' = [ok |-> TRUE, df |-> cache.value]
            /\ fetched' = "hit"
            /\ cache' = cache
       ELSE LET r == LoadFrame(remote)
            IN  /\ result' = r
                /\ fetched' = "miss"
                /\ cache' = IF r.ok
                            THEN [valid |-> TRUE, at |-> now, value |-> r.df]
                            ELSE [valid |-> FALSE]
    /\ UNCHANGED <<remote, now, localVars, coerceVars>>

\* time passes
Tick ==
    /\ now < MaxTicks * TickSec
    /\ now' = now + TickSec
    /\ UNCHANGED <<remote, cache, result, fetched, localVars, coerceVars>>

\* the owner of the sheet edits it
SheetEdit ==
    /\ remote' \in Sheets \ {remote}
    /\ UNCHANGED <<now, cache, result, fetched, localVars, coerceVars>>

NextSheet ==
    \/ CallLoad
    \/ Tick
    \/ SheetEdit

SpecSheet == InitSheet /\ [][NextSheet]_vars

----------------------------------------------------------------------------
(* safe_int and safe_float on arbitrary arguments                          *)

Alphabet == {" ", "n", "a", "N", "A", "0", "2", "4", "."}

RECURSIVE Texts(_)
Texts(n) ==
    IF n = 0 THEN {<<>>}
    ELSE LET shorter == Texts(n - 1)
         IN  shorter \cup
             {Append(q, c) : q \in {s \in shorter : Len(s) = n - 1},
                             c \in Alphabet}

CoerceInputs ==
    {None, NaN, IntV(24), FloatV(245, 1)} \cup {StrV(s) : s \in Texts(MaxLen)}

InitCoerce ==
    /\ x \in CoerceInputs
    /\ ri = NaN
    /\ rf = NaN
    /\ cpc = "call"
    /\ LocalIdle
    /\ SheetIdle

Coerce ==
    /\ cpc = "call"
    /\ ri' = safe_int(x)
    /\ rf' = safe_float(x)
    /\ cpc' = "ret"
    /\ UNCHANGED <<x, localVars, sheetVars>>

NextCoerce ==
    \/ Coerce

SpecCoerce == InitCoerce /\ [][NextCoerce]_vars

----------------------------------------------------------------------------
(* Properties                                                              *)

RowsOn(frame, d) == {i \in 1..Len(frame) : frame[i].date = d}

IsSorted(frame) ==
    \A i, j \in 1..Len(frame) :
        i < j => /\ notna(frame[i].date) /\ notna(frame[j].date)
                 /\ DateLess(frame[i].date.d, frame[j].date.d)
                    \/ frame[i].date.d = frame[j].date.d

\* the records with the greatest and the least date of a frame
LatestRecord(frame) ==
    CHOOSE r \in {frame[i] : i \in 1..Len(frame)} :
        \A i \in 1..Len(frame) : ~DateLess(r.date.d, frame[i].date.d)

EarliestRecord(frame) ==
    CHOOSE r \in {frame[i] : i \in 1..Len(frame)} :
        \A i \in 1..Len(frame) : ~DateLess(frame[i].date.d, r.date.d)

\* C1: starting from no file or a file with one row per date, after any
\* sequence of Save entry and Delete runs the frame holds at most one record
\* for every date.
C1_DateKeyUnique ==
    \A i, j \in 1..Len(df) : i # j => df[i].date # df[j].date

\* C1 witness: Save entry has upserted a row into a frame that holds other
\* dates too.
C1_Witness ==
    /\ pc = "guard" /\ row # NoRow
    /\ Len(df) >= 2 /\ Cardinality(RowsOn(df, row.date)) = 1

\* C2: upsert_row is idempotent under identical input, and its result holds
\* exactly one record for the date of the row, equal to the row in every
\* field.
C2_UpsertIdempotent ==
    (pc = "guard" /\ row # NoRow) =>
        /\ upsert_row(df, row) = df
        /\ Cardinality(RowsOn(df, row.date)) = 1
        /\ \A i \in RowsOn(df, row.date) : df[i] = row

\* C2 witness: a row with a missing weight and empty notes has been upserted
\* next to other records.
C2_Witness ==
    /\ pc = "guard" /\ row # NoRow
    /\ ~notna(row.weight_lbs) /\ row.notes = StrV(<<>>)
    /\ Len(df) = 3

\* C3: a record saved for date d is found by the next run, and deleting date
\* d when the frame holds it removes it and reports wasDeleted; deleting a
\* date the frame does not hold reports wasDeleted false and leaves the frame
\* as it is; either way the run completes.
C3_DeleteSignal ==
    /\ []((pc = "guard" /\ row # NoRow) =>
            /\ load_data(file).ok
            /\ HasDate(load_data(file).df, row.date))
    /\ [][(pc = "delete" /\ del'.pressed) =>
            /\ pc' = "done"
            /\ IF HasDate(df, DateV(del'.date))
               THEN /\ del'.wasDeleted
                    /\ ~HasDate(df', DateV(del'.date))
                    /\ Len(df') = Len(df) - 1
               ELSE /\ ~del'.wasDeleted
                    /\ df' = df]_vars

\* C3 witness: a delete removed one record and left another.
C3_Witness ==
    /\ pc = "done" /\ del.pressed /\ del.wasDeleted
    /\ Len(df) >= 1 /\ ~HasDate(df, DateV(del.date))

\* C4: the frame returned by load_data for any row order of the file, by
\* upsert_row, and kept after a delete, is sorted ascending by date.
C4_SortedByDate == IsSorted(df)

\* C4 witness: a file whose rows are not in date order has been loaded.
C4_Witness ==
    /\ pc = "form" /\ Len(df) = 2 /\ Len(file.rows) = 2
    /\ file.rows[1].date = strftime(df[2].date.d)

\* C5 (as claimed): a load after save_data(C) returns exactly C.
C5_LoadAfterPersist ==
    wrote => /\ load_data(file).ok
             /\ load_data(file).df = df

\* C6: a call of load_data_from_sheet made less than 300 s after the fetch
\* that filled the cache returns the cached frame without fetching; a call
\* with no entry or an entry 300 s old or older fetches; no other step
\* changes the cache.
C6_TtlCache ==
    [][IF now' = now /\ remote' = remote
       THEN IF cache.valid /\ now - cache.at < 300
            THEN /\ fetched' = "hit"
                 /\ result' = [ok |-> TRUE, df |-> cache.value]
                 /\ cache' = cache
            ELSE /\ fetched' = "miss"
                 /\ result' = LoadFrame(remote)
       ELSE cache' = cache]_vars

\* C6 witness: the cached frame was served although the sheet has changed.
C6_Witness ==
    /\ fetched = "hit" /\ cache.valid /\ now > cache.at
    /\ LoadFrame(remote) # result

\* C7 (as claimed): for None, empty, whitespace-only and "nan" (any case)
\* arguments safe_int returns the default 0 and safe_float returns NaN.
IsBlank(v) ==
    \/ v.t = "none"
    \/ v.t = "str" /\ (Strip(v.s) = <<>> \/ LowerText(v.s) = NanText)

C7_BlankCoercion ==
    (cpc = "ret" /\ IsBlank(x)) => (ri = IntV(0) /\ rf = NaN)

\* C8 (as claimed): a fetch of a sheet with unparseable or missing dates
\* succeeds, drops exactly those rows and keeps every row with a valid date.
C8_BadDateRowsDropped ==
    [][(now' = now /\ remote' = remote /\ fetched' = "miss") =>
        /\ result'.ok
        /\ \A i \in 1..Len(result'.df) : notna(result'.df[i].date)
        /\ Len(result'.df) =
             Cardinality({i \in 1..Len(remote) : IsIsoDateText(remote[i].date)})]_vars

\* C9: the weight delta is the weight of the record with the greatest date
\* minus the weight of the record with the least date when both are present,
\* and no delta is shown when either is missing, whatever the records in
\* between hold.
C9_WeightDelta ==
    pc \in {"filters", "delete"} =>
        LET w_l == LatestRecord(df).weight_lbs
            w_e == EarliestRecord(df).weight_lbs
        IN  IF notna(w_l) /\ notna(w_e)
            THEN metric.shown = "weight" /\ metric.delta = FloatSub(w_l, w_e)
            ELSE metric.shown = "dash" /\ metric.delta = None

\* C9 witness: the earliest weight is missing, the later ones are not, and
\* no delta is shown.
C9_Witness ==
    /\ pc = "filters" /\ Len(df) = 3
    /\ ~notna(df[1].weight_lbs)
    /\ notna(df[2].weight_lbs) /\ notna(df[3].weight_lbs)
    /\ metric.shown = "dash"

\* C10: latest/first and min_d/max_d are evaluated only on a non-empty
\* frame; a run whose frame is empty after the load and the optional upsert
\* stops before any of them is computed.
C10_NonEmptyBeforeMetrics ==
    /\ pc \in {"metrics", "filters", "delete"} => Len(df) > 0
    /\ pc = "stopped" =>
          /\ Len(df) = 0
          /\ metric.shown = "entries0"
          /\ ~filt.shown

\* C10 witness: a run over an existing file without rows stopped at the
\* guard.
C10_Witness ==
    pc = "stopped" /\ file.exists /\ Len(df) = 0

====
